---- MODULE Spec2Model ----
(***************************************************************************)
(* Model of the reddit comment scraper (scraper.py) and of its database   *)
(* schema (commentDB.py).                                                   *)
(*                                                                          *)
(* Conventions                                                              *)
(*  - A Python None / SQL NULL is an ABSENT record field: a row or an API   *)
(*    object is a record whose domain holds exactly the non-null            *)
(*    attributes.  A model object that never assigned an attribute (the     *)
(*    keyword constructor) lacks the field as well.                         *)
(*  - Unicode text that the code encodes (comment bodies) is a sequence of  *)
(*    code points; a Python 2 byte string is a sequence of byte values.     *)
(*  - The relational store is SQLite through SQLAlchemy: primary keys,      *)
(*    UNIQUE and NOT NULL are enforced, foreign keys are not (no PRAGMA     *)
(*    foreign_keys in scraper.py).                                          *)
(***************************************************************************)
EXTENDS Integers, Sequences, FiniteSets, TLC

VARIABLES
    db,       \* the committed content of redditDB.sqlite, one set of rows per table
    call,     \* persistence layer: the last add_model / merge_model call and its outcome
    pre,      \* persistence layer: the store as it was when that call started
    okKeys,   \* persistence layer: identities for which add_model has returned True
    world,    \* the remote content served by the reddit API (fixed during a behaviour)
    pc,       \* crawl: position of the main program
    loc,      \* crawl: loop variables (flair, submission, comment, user, activity index)
    users,    \* crawl: the set `users` of author names seen in this run
    todo,     \* crawl: names load_users has still to iterate over
    praw,     \* crawl: the running / last safe_praw_call invocation
    run,      \* crawl: number of the current run of the program against the store
    gen,      \* statistics: the post history handed to user_stats
    stats     \* statistics: the dictionary user_stats returned

storeVars == <<db, call, pre, okKeys>>
crawlVars == <<world, pc, loc, users, todo, praw, run>>
statVars  == <<gen, stats>>
vars == <<db, call, pre, okKeys, world, pc, loc, users, todo, praw, run, gen, stats>>

-----------------------------------------------------------------------------
(* Generic helpers                                                          *)

Has(r, f) == f \in DOMAIN r

\* The record r cut down to the fields in fs that it has.
Restrict(r, fs) == [f \in (fs \cap DOMAIN r) |-> r[f]]

\* The elements of the sequence s, as a set.
Range(s) == {s[i] : i \in 1..Len(s)}

Max(S) == CHOOSE m \in S : \A n \in S : n <= m

Min(S) == CHOOSE m \in S : \A n \in S : m <= n

-----------------------------------------------------------------------------
(* commentDB.py: the schema                                                 *)

\* __tablename__ of each mapped class.
Table(kind) ==
    CASE kind = "Subreddit"    -> "subreddits"
      [] kind = "Submission"   -> "submissions"
      [] kind = "Comment"      -> "comments"
      [] kind = "User"         -> "users"
      [] kind = "UserActivity" -> "user_activities"

\* The primary_key=True column of each mapped class.
PrimaryKey(kind) ==
    CASE kind = "Subreddit"    -> "subreddit_id"
      [] kind = "Submission"   -> "sub_id"
      [] kind = "Comment"      -> "com_id"
      [] kind = "User"         -> "name"
      [] kind = "UserActivity" -> "id"

\* Columns declared nullable=False (a primary key is NOT NULL as well).
NotNull(kind) ==
    CASE kind = "Subreddit"    -> {"subreddit_id"}
      [] kind = "Submission"   -> {"sub_id", "title", "text"}
      [] kind = "Comment"      -> {"com_id", "text"}
      [] kind = "User"         -> {"name"}
      [] kind = "UserActivity" -> {"user_name", "subreddit_id"}

\* Columns declared unique=True.
Unique(kind) == IF kind = "Subreddit" THEN {"name"} ELSE {}

\* datetime.utcfromtimestamp: an epoch number becomes a datetime value.
utcfromtimestamp(t) == <<"datetime", t>>

\* get_author_name: obj.author.name, None when obj.author is None.
get_author_name(obj) ==
    IF Has(obj, "author") THEN [user_name |-> obj.author] ELSE <<>>

\* Subreddit(praw_obj): lines 59-62.
Subreddit(s) ==
    [kind |-> "Subreddit", subreddit_id |-> s.fullname, name |-> s.display_name]

\* Subreddit(subreddit_id=..., name=...): the keyword constructor.
SubredditKw(id, name) ==
    [kind |-> "Subreddit", subreddit_id |-> id, name |-> name]

\* Submission(praw_obj): lines 104-123.  sub_id is the fullname, text the
\* selftext; the other attributes keep their names.
Submission(s) ==
    [kind |-> "Submission", sub_id |-> s.fullname,
     timestamp |-> utcfromtimestamp(s.created_utc)]
    @@ get_author_name(s)
    @@ (IF Has(s, "selftext") THEN [text |-> s.selftext] ELSE <<>>)
    @@ Restrict(s, {"subreddit_id", "title", "score", "ups", "downs", "stickied",
                    "distinguished", "gilded", "domain", "short_link", "permalink"})

\* Comment(praw_obj, rank, num_replies, convo_depth): lines 169-190.  The
\* constructor never assigns sub_id, which stays NULL.
Comment(c, rank, num_replies, convo_depth) ==
    [kind |-> "Comment", com_id |-> c.fullname,
     timestamp |-> utcfromtimestamp(c.created_utc),
     best_rank |-> rank, num_replies |-> num_replies, convo_depth |-> convo_depth]
    @@ get_author_name(c)
    @@ (IF Has(c, "body") THEN [text |-> c.body] ELSE <<>>)
    @@ Restrict(c, {"subreddit_id", "parent_id", "score", "ups", "downs",
                    "num_reports", "distinguished", "gilded", "is_root", "permalink"})

\* User(name=...): the keyword constructor, a stub holding the name alone.
UserStub(name) == [kind |-> "User", name |-> name]

\* User(praw_obj): lines 226-236.
User(a) ==
    [kind |-> "User", name |-> a.name, user_id |-> a.fullname,
     timestamp |-> utcfromtimestamp(a.created_utc)]
    @@ Restrict(a, {"comment_karma", "link_karma", "is_mod", "is_gold",
                    "has_verified_email"})

\* UserActivity(user_name=, subreddit_id=, subreddit_name=, comment_stats=,
\* submission_stats=): lines 296-326.  The fourteen statistics columns are
\* kept as the two dictionaries they are copied from.
UserActivity(user_name, subreddit_id, subreddit_name, comment_stats, submission_stats) ==
    [kind |-> "UserActivity", user_name |-> user_name,
     subreddit_id |-> subreddit_id, subreddit_name |-> subreddit_name,
     comment_stats |-> comment_stats, submission_stats |-> submission_stats]

-----------------------------------------------------------------------------
(* The relational store behind the SQLAlchemy session                       *)

EmptyDb ==
    [subreddits |-> {}, submissions |-> {}, comments |-> {}, users |-> {},
     user_activities |-> {}]

Rows(d, kind) == d[Table(kind)]

\* The row a flushed model becomes: its assigned attributes; an integer
\* primary key left unassigned (UserActivity.id) is given the next rowid.
ToRow(model, d) ==
    IF model.kind = "UserActivity" /\ ~Has(model, "id")
    THEN model @@ [id |-> Cardinality(d.user_activities) + 1]
    ELSE model

\* What the database checks when the INSERT / UPDATE of `row` is flushed,
\* the other rows of its table being `others`.
IntegrityOK(row, others) ==
    /\ NotNull(row.kind) \subseteq DOMAIN row
    /\ \A r \in others : r[PrimaryKey(row.kind)] # row[PrimaryKey(row.kind)]
    /\ \A u \in Unique(row.kind) :
          Has(row, u) => \A r \in others : Has(r, u) => r[u] # row[u]

\* scraper.py 147-163: the identity query of add_model; the set of rows
\* .first() can return (empty: obj is None).  No branch matches a
\* UserActivity, whose obj stays None.
Lookup(model, d) ==
    IF model.kind \in {"Subreddit", "Submission", "Comment", "User"}
    THEN {r \in Rows(d, model.kind) :
             r[PrimaryKey(model.kind)] = model[PrimaryKey(model.kind)]}
    ELSE {}

\* session.add(model); session.commit(): the store after a commit that succeeds.
Insert(model, d) ==
    [d EXCEPT ![Table(model.kind)] = @ \cup {ToRow(model, d)}]

\* session.merge(model): the row the merge flushes.  The attributes the given
\* object holds are copied onto the row with its primary key, when there is one.
MergedRow(model, d) ==
    LET old == {r \in Rows(d, model.kind) :
                   Has(model, PrimaryKey(model.kind))
                   /\ r[PrimaryKey(model.kind)] = model[PrimaryKey(model.kind)]}
    IN  IF old = {} THEN ToRow(model, d)
        ELSE LET r == CHOOSE r \in old : TRUE
             IN  [c \in DOMAIN r \cup DOMAIN model |->
                     IF c \in DOMAIN model THEN model[c] ELSE r[c]]

\* The rows of the model's table other than the one with its primary key.
Others(model, d) ==
    {r \in Rows(d, model.kind) :
        ~(Has(model, PrimaryKey(model.kind))
          /\ r[PrimaryKey(model.kind)] = model[PrimaryKey(model.kind)])}

\* A variant of add_model that updates the stored row when the identity is
\* already present.
add_model_upsert(model, d, fault) ==
    LET row == MergedRow(model, d)
    IN  IF fault = "none" /\ IntegrityOK(row, Others(model, d))
        THEN [db |-> [d EXCEPT ![Table(model.kind)] = Others(model, d) \cup {row}],
              ret |-> Lookup(model, d) = {}, raised |-> FALSE, rolled_back |-> FALSE]
        ELSE [db |-> d, ret |-> FALSE, raised |-> FALSE, rolled_back |-> TRUE]

\* A variant of add_model that reports success without committing the row.
add_model_nocommit(model, d, fault) ==
    IF Lookup(model, d) # {}
    THEN [db |-> d, ret |-> FALSE, raised |-> FALSE, rolled_back |-> FALSE]
    ELSE [db |-> d, ret |-> TRUE, raised |-> FALSE, rolled_back |-> FALSE]

\* scraper.py 146-173: add_model(model, session).  `fault` is what the store
\* does during the call: "lookup" makes the identity query raise, "write"
\* makes the flush or the commit raise although no constraint is violated.
\* The result holds the store afterwards, the value returned, whether an
\* exception left the function and whether session.rollback() ran.
add_model(model, d, fault) ==
    IF fault = "lookup" /\ model.kind # "UserActivity"
    THEN \* the query is not inside the try block
         [db |-> d, ret |-> FALSE, raised |-> TRUE, rolled_back |-> FALSE]
    ELSE IF Lookup(model, d) # {}
    THEN [db |-> d, ret |-> FALSE, raised |-> FALSE, rolled_back |-> FALSE]
    ELSE IF fault # "write" /\ IntegrityOK(ToRow(model, d), Rows(d, model.kind))
    THEN [db |-> Insert(model, d), ret |-> TRUE, raised |-> FALSE,
          rolled_back |-> FALSE]
    ELSE [db |-> d, ret |-> FALSE, raised |-> FALSE, rolled_back |-> TRUE]

\* A variant of merge_model that inserts only, leaving a stored row as it is.
merge_model_insert_only(model, d, fault) ==
    IF Lookup(model, d) = {} /\ fault = "none"
       /\ IntegrityOK(ToRow(model, d), Rows(d, model.kind))
    THEN [db |-> Insert(model, d), rolled_back |-> FALSE]
    ELSE [db |-> d, rolled_back |-> Lookup(model, d) = {}]

\* scraper.py 176-181: merge_model(model, session).
merge_model(model, d, fault) ==
    LET row == MergedRow(model, d)
    IN  IF fault = "none" /\ IntegrityOK(row, Others(model, d))
        THEN [db |-> [d EXCEPT ![Table(model.kind)] = Others(model, d) \cup {row}],
              rolled_back |-> FALSE]
        ELSE [db |-> d, rolled_back |-> TRUE]

-----------------------------------------------------------------------------
(* Persistence layer on its own: add_model and merge_model called with      *)
(* arbitrary model objects, as their contract allows                        *)

MaxActivities == 1

\* The posts a user's comment / submission history serves: records with the
\* subreddit display name and the vote counts.
Post(subreddit, ups, downs) == [subreddit |-> subreddit, ups |-> ups, downs |-> downs]

\* The account get_redditor serves for a name, with the two histories
\* get_comments and get_submitted list.
Redditor(name) ==
    [name |-> name,
     fullname |-> CASE name = "alice" -> "t2_a" [] name = "bob" -> "t2_b" [] OTHER -> "t2_c",
     created_utc |-> CASE name = "alice" -> 100 [] name = "bob" -> 200 [] OTHER -> 300,
     comment_karma |-> IF name = "alice" THEN 7 ELSE 0,
     link_karma |-> 2, is_mod |-> FALSE, is_gold |-> name = "alice",
     has_verified_email |-> TRUE,
     comments |-> IF name = "bob" THEN <<>>
                  ELSE <<Post("askscience", 6, 1), Post("pics", 4, 2)>>,
     submitted |-> IF name = "alice" THEN <<Post("askscience", 3, 0)>> ELSE <<>>]

UserNames == {"alice", "bob"}

\* Subreddit models: the two the program stores, and one with the id of the
\* second and the name of the first.
SubredditModels ==
    {SubredditKw("GLOBAL", "GLOBAL"), SubredditKw("t5_a", "askscience"),
     SubredditKw("t5_a", "GLOBAL")}

\* Submission models: two with every mandatory column and different payloads,
\* and one built with the keyword constructor that leaves title and text NULL.
SubmissionModels ==
    {[kind |-> "Submission", sub_id |-> "t3_1", title |-> "why", text |-> "", score |-> sc]
        : sc \in {1, 2}}
    \cup {[kind |-> "Submission", sub_id |-> "t3_1", score |-> 1]}

CommentModels ==
    {[kind |-> "Comment", com_id |-> "t1_1", text |-> <<104, 105>>, best_rank |-> rk,
      num_replies |-> 0, convo_depth |-> 1] : rk \in {1, 2}}

UserModels ==
    {UserStub(n) : n \in UserNames} \cup {User(Redditor(n)) : n \in UserNames}

NoStats == [count |-> 0, pos_karma |-> 0, neg_karma |-> 0, net_karma |-> 0]

ActivityModels ==
    {UserActivity("alice", "GLOBAL", "GLOBAL", NoStats, NoStats)}

Models ==
    SubredditModels \cup SubmissionModels \cup CommentModels \cup UserModels
    \cup ActivityModels

\* The natural identity of a model: its kind and primary key value.
Identity(model) == <<model.kind, model[PrimaryKey(model.kind)]>>

Keyed(model) == model.kind \in {"Subreddit", "Submission", "Comment", "User"}

NoCall ==
    [op |-> "none", fault |-> "none", ret |-> FALSE, raised |-> FALSE,
     rolled_back |-> FALSE, known |-> FALSE]

\* One call of add_model by a client of the persistence layer.
AddStep(model, fault) ==
    LET res == add_model(model, db, fault)
    IN  /\ pc = "api"
        /\ model.kind = "UserActivity" => Cardinality(db.user_activities) < MaxActivities
        /\ db' = res.db
        /\ pre' = db
        /\ call' = [op |-> "add", model |-> model, fault |-> fault, ret |-> res.ret,
                    raised |-> res.raised, rolled_back |-> res.rolled_back,
                    known |-> Keyed(model) /\ Identity(model) \in okKeys]
        /\ okKeys' = IF res.ret /\ ~res.raised /\ Keyed(model)
                     THEN okKeys \cup {Identity(model)} ELSE okKeys
        /\ UNCHANGED <<crawlVars, statVars>>

\* One call of merge_model; the program merges User objects only.
MergeStep(model, fault) ==
    LET res == merge_model(model, db, fault)
    IN  /\ pc = "api"
        /\ db' = res.db
        /\ pre' = db
        /\ call' = [op |-> "merge", model |-> model, fault |-> fault, ret |-> FALSE,
                    raised |-> FALSE, rolled_back |-> res.rolled_back,
                    known |-> FALSE]
        /\ UNCHANGED <<okKeys, crawlVars, statVars>>

AddModel == \E model \in Models : AddStep(model, "none")

MergeModel == \E model \in UserModels : MergeStep(model, "none")

AddModelFault == \E model \in Models, fault \in {"lookup", "write"} : AddStep(model, fault)

MergeModelFault == \E model \in UserModels : MergeStep(model, "write")

-----------------------------------------------------------------------------
(* Initial states                                                           *)

IdlePraw ==
    [site |-> "none", status |-> "idle", attempt_count |-> 0, calls |-> 0,
     errors |-> 0, slept |-> 0, obj |-> "None"]

NoLoc == [flair |-> 0, si |-> 0, ci |-> 0, username |-> "", ai |-> 0]

NoWorld == [subreddit |-> <<>>, search |-> <<>>, redditors |-> <<>>]

InitStore ==
    /\ db = EmptyDb /\ call = NoCall /\ pre = EmptyDb /\ okKeys = {}
    /\ world = NoWorld /\ pc = "api" /\ loc = NoLoc /\ users = {} /\ todo = {}
    /\ praw = IdlePraw /\ run = 0
    /\ gen = <<>> /\ stats = <<>>

NextStore == AddModel \/ MergeModel

NextStoreFault == AddModel \/ MergeModel \/ AddModelFault \/ MergeModelFault

\* The persistence layer over a store that fails only by rejecting a row.
Spec == InitStore /\ [][NextStore]_vars

\* The persistence layer over a store whose queries and commits may raise.
SpecFault == InitStore /\ [][NextStoreFault]_vars

-----------------------------------------------------------------------------
(* Claims about the persistence layer                                        *)

\* A row with the model's identity key is stored in d.
KeyStored(model, d) ==
    \E r \in d[Table(model.kind)] :
        r[PrimaryKey(model.kind)] = model[PrimaryKey(model.kind)]

\* C1: when a row with the same natural key (subreddit_id, sub_id, com_id,
\* name) is already stored, add_model returns False and the store is exactly
\* what it was: same rows, the stored row not overwritten.
C1_AddExistingIsNoOp ==
    (call.op = "add" /\ Keyed(call.model) /\ KeyStored(call.model, pre))
        => (call.ret = FALSE /\ ~call.raised /\ db = pre)

\* C1 witness: add_model was called with a model whose key was stored with
\* other field values than the model's.
C1_Witness ==
    /\ call.op = "add" /\ Keyed(call.model) /\ ~call.ret
    /\ \E r \in pre[Table(call.model.kind)] :
          /\ r[PrimaryKey(call.model.kind)] = call.model[PrimaryKey(call.model.kind)]
          /\ r # call.model
          /\ r \in db[Table(call.model.kind)]

\* C2 as claimed: for any entity whose identity key is not stored, add_model
\* returns True (and a later add_model of the same identity returns False).
C2_AddAbsentReturnsTrue ==
    /\ (call.op = "add" /\ Keyed(call.model) /\ ~KeyStored(call.model, pre))
          => call.ret = TRUE
    /\ (call.op = "add" /\ call.known) => call.ret = FALSE

\* C2 amended: for an entity whose identity key is not stored, add_model
\* returns True exactly when the insert and commit succeed, that is when the
\* row violates no NOT NULL / UNIQUE constraint of the schema; it then is
\* stored, and otherwise the store is unchanged.  Once add_model has returned
\* True for an identity, every later add_model of that identity returns False.
C2_AddAbsentReturnsTrueIfInsertable ==
    /\ (call.op = "add" /\ Keyed(call.model) /\ ~KeyStored(call.model, pre))
          => /\ call.ret = IntegrityOK(call.model, pre[Table(call.model.kind)])
             /\ call.ret => db = [pre EXCEPT ![Table(call.model.kind)] = @ \cup {call.model}]
             /\ ~call.ret => db = pre
    /\ (call.op = "add" /\ call.known) => call.ret = FALSE

\* C2 witness: add_model returned False for an identity it had returned True
\* for before.
C2_Witness ==
    /\ call.op = "add" /\ call.known /\ ~call.ret
    /\ KeyStored(call.model, db)

\* A step of the last add_model call failed: the identity query raised, or
\* the insert / commit of a row not yet stored raised.
AddFailed ==
    /\ call.op = "add"
    /\ \/ call.fault = "lookup" /\ Keyed(call.model)
       \/ /\ ~(Keyed(call.model) /\ KeyStored(call.model, pre))
          /\ \/ call.fault = "write"
             \/ ~IntegrityOK(ToRow(call.model, pre), pre[Table(call.model.kind)])

\* C3: when any step of add_model fails (identity lookup, insert or commit)
\* the transaction is rolled back, add_model returns False, the store holds
\* exactly the rows it held before, and no exception reaches the caller.
C3_AnyFailureRollsBackAndReturnsFalse ==
    AddFailed => (call.rolled_back /\ call.ret = FALSE /\ ~call.raised /\ db = pre)

\* Is the users row for `name` the full profile the API serves for it?
FullProfileRow(r, name) ==
    /\ r.name = name
    /\ DOMAIN r = {"kind", "name", "user_id", "timestamp", "comment_karma",
                   "link_karma", "is_mod", "is_gold", "has_verified_email"}
    /\ r.user_id = Redditor(name).fullname
    /\ r.timestamp = utcfromtimestamp(Redditor(name).created_utc)
    /\ r.comment_karma = Redditor(name).comment_karma
    /\ r.link_karma = Redditor(name).link_karma
    /\ r.is_mod = Redditor(name).is_mod
    /\ r.is_gold = Redditor(name).is_gold
    /\ r.has_verified_email = Redditor(name).has_verified_email

UsersNamed(d, name) == {r \in d.users : r.name = name}

\* C7: merge_model with the full profile over a name-only stub leaves exactly
\* one users row for the name, and it carries the full profile; a later
\* add_model of a stub for the name leaves a full row as it is.
C7_MergeUpgradesStub ==
    /\ \A n \in UserNames :
          (call.op = "merge" /\ call.model = User(Redditor(n))
           /\ UsersNamed(pre, n) = {UserStub(n)})
             => /\ Cardinality(UsersNamed(db, n)) = 1
                /\ \A r \in UsersNamed(db, n) : FullProfileRow(r, n)
    /\ \A n \in UserNames :
          (call.op = "add" /\ call.model = UserStub(n)
           /\ \E r \in UsersNamed(pre, n) : FullProfileRow(r, n))
             => /\ Cardinality(UsersNamed(db, n)) = 1
                /\ \A r \in UsersNamed(db, n) : FullProfileRow(r, n)

\* C7 witness: the full profile was merged over a stored stub.
C7_Witness ==
    /\ call.op = "merge" /\ call.model = User(Redditor("bob"))
    /\ UsersNamed(pre, "bob") = {UserStub("bob")}
    /\ \E r \in db.users : FullProfileRow(r, "bob")

-----------------------------------------------------------------------------
(* scraper.py: statistics over a user's post history                        *)

RECURSIVE Gcd(_, _)
Gcd(a, b) == IF b = 0 THEN a ELSE Gcd(b, a % b)

Abs(a) == IF a < 0 THEN -a ELSE a

\* float(a) / b for b > 0: the quotient as a fraction in lowest terms
\* <<numerator, denominator>>, so that 10/2 and 5/1 are the same number and
\* 3/2 is not rounded to an integer.
FloatDiv(a, b) ==
    LET g == Gcd(Abs(a), b) IN <<a \div g, b \div g>>

\* scraper.py 12-22: _build_summary_stats(stats).  The three averages are
\* None (absent) when count is 0.
build_summary_stats(st) ==
    LET net == st.pos_karma - st.neg_karma
    IN  IF st.count = 0
        THEN st @@ [net_karma |-> net]
        ELSE st @@ [net_karma |-> net,
                    avg_pos_karma |-> FloatDiv(st.pos_karma, st.count),
                    avg_neg_karma |-> FloatDiv(st.neg_karma, st.count),
                    avg_net_karma |-> FloatDiv(net, st.count)]

\* defaultdict(int): a bucket never written reads as zeros.
Bucket(st, b) ==
    IF b \in DOMAIN st THEN st[b] ELSE [count |-> 0, pos_karma |-> 0, neg_karma |-> 0]

\* scraper.py 43-45 / 46-48: one bucket counts one post.
Count(st, b, obj) ==
    [x \in DOMAIN st \cup {b} |->
        IF x = b
        THEN [count |-> Bucket(st, b).count + 1,
              pos_karma |-> Bucket(st, b).pos_karma + obj.ups,
              neg_karma |-> Bucket(st, b).neg_karma + obj.downs]
        ELSE st[x]]

\* scraper.py 40-48: the loop over the history, from post i on.
RECURSIVE Tally(_, _, _, _)
Tally(st, posts, i, subreddits) ==
    IF i > Len(posts) THEN st
    ELSE LET obj == posts[i]
             st1 == IF obj.subreddit \in subreddits
                    THEN Count(st, obj.subreddit, obj) ELSE st
         IN  Tally(Count(st1, "GLOBAL", obj), posts, i + 1, subreddits)

\* scraper.py 38-53: user_stats(gen, subreddits); subreddits are the keys of
\* subreddit_models.  The summary is built for the tracked buckets.
user_stats(posts, subreddits) ==
    LET st == Tally(<<>>, posts, 1, subreddits)
    IN  [b \in DOMAIN st \cup subreddits |->
            IF b \in subreddits THEN build_summary_stats(Bucket(st, b)) ELSE st[b]]

\* scraper.py 204-212: the keys of subreddit_models, in iteration order.
SubredditOrder == <<"GLOBAL", "askscience">>

-----------------------------------------------------------------------------
(* user_stats on its own: any history of at most MaxPosts posts             *)

MaxPosts == 2

\* Posts of a tracked subreddit, of an untracked one, and of a subreddit whose
\* display name is the word the program uses for its catch-all bucket.
Posts ==
    {Post(sr, ups, downs) :
        sr \in {"askscience", "pics", "GLOBAL"}, ups \in {4, 6}, downs \in {1, 2}}

Histories == UNION {[1..n -> Posts] : n \in 0..MaxPosts}

InitStats ==
    /\ db = EmptyDb /\ call = NoCall /\ pre = EmptyDb /\ okKeys = {}
    /\ world = NoWorld /\ pc = "user_stats" /\ loc = NoLoc /\ users = {} /\ todo = {}
    /\ praw = IdlePraw /\ run = 0
    /\ gen \in Histories /\ stats = <<>>

\* stats = user_stats(gen, subreddit_models)
UserStats ==
    /\ pc = "user_stats"
    /\ pc' = "returned"
    /\ stats' = user_stats(gen, Range(SubredditOrder))
    /\ UNCHANGED <<storeVars, world, loc, users, todo, praw, run, gen>>

SpecStats == InitStats /\ [][UserStats]_vars

\* The posts of a history that belong to a bucket: all of them for GLOBAL,
\* those of the subreddit otherwise.
InBucket(b) ==
    {i \in 1..Len(gen) : b = "GLOBAL" \/ gen[i].subreddit = b}

RECURSIVE Sum(_, _)
Sum(f, S) == IF S = {} THEN 0 ELSE LET x == CHOOSE x \in S : TRUE
                                   IN  f[x] + Sum(f, S \ {x})

Ups == [i \in 1..Len(gen) |-> gen[i].ups]

Downs == [i \in 1..Len(gen) |-> gen[i].downs]

\* C10: for every tracked bucket, GLOBAL included, count is the number of
\* posts of the bucket (GLOBAL: of all posts), pos_karma and neg_karma the
\* sums of their up and down votes, net_karma their difference, and the
\* averages are pos/neg/net over count, or all three None when count is 0.
C10_StatsPerBucket ==
    pc = "returned" =>
        \A b \in Range(SubredditOrder) :
            LET st == stats[b] IN
            /\ st.count = Cardinality(InBucket(b))
            /\ st.pos_karma = Sum(Ups, InBucket(b))
            /\ st.neg_karma = Sum(Downs, InBucket(b))
            /\ st.net_karma = st.pos_karma - st.neg_karma
            /\ st.count = 0 =>
                  {"avg_pos_karma", "avg_neg_karma", "avg_net_karma"} \cap DOMAIN st = {}
            /\ st.count > 0 =>
                  /\ st.avg_pos_karma[1] * st.count = st.pos_karma * st.avg_pos_karma[2]
                  /\ st.avg_neg_karma[1] * st.count = st.neg_karma * st.avg_neg_karma[2]
                  /\ st.avg_net_karma[1] * st.count = st.net_karma * st.avg_net_karma[2]

\* Supporting check: the statement holds for the histories without a post of
\* a subreddit that is itself named GLOBAL, with the example of the specification: 10 up and 3
\* down votes over 2 posts give net 7 and averages 5.0, 1.5 and 3.5.
C10_StatsPerBucketNoCollision ==
    (\A i \in 1..Len(gen) : gen[i].subreddit # "GLOBAL") =>
        /\ C10_StatsPerBucket
        /\ (pc = "returned" /\ stats["GLOBAL"].count = 2
            /\ stats["GLOBAL"].pos_karma = 10 /\ stats["GLOBAL"].neg_karma = 3)
              => /\ stats["GLOBAL"].net_karma = 7
                 /\ stats["GLOBAL"].avg_pos_karma = <<5, 1>>
                 /\ stats["GLOBAL"].avg_neg_karma = <<3, 2>>
                 /\ stats["GLOBAL"].avg_net_karma = <<7, 2>>

-----------------------------------------------------------------------------
(* The remote content the crawl reads                                       *)

MaxReplies == 2

\* '[deleted]' as code points.
DeletedMarker == <<91, 100, 101, 108, 101, 116, 101, 100, 93>>

\* Comment bodies: "hi", the deleted marker, a text that differs from the
\* marker by a non-ASCII letter ("[del" e-acute "eted]"), and a non-ASCII
\* text (e-acute).
Bodies ==
    {<<104, 105>>, DeletedMarker,
     <<91, 100, 101, 108, 233, 101, 116, 101, 100, 93>>, <<233>>}

\* unicode.encode('ascii', 'ignore') in Python 2: the code points above 127
\* are dropped, the others become the bytes of a str.
encode_ascii_ignore(text) == SelectSeq(text, LAMBDA ch : ch < 128)

\* Shapes of reply forests: a forest is the sequence of the shapes of its
\* trees' own reply forests.  At most MaxReplies replies per comment, replies
\* and replies to replies.
Shapes1 == UNION {[1..n -> {<<>>}] : n \in 0..MaxReplies}

Shapes2 == UNION {[1..n -> Shapes1] : n \in 0..MaxReplies}

\* The reply comments of a forest shape, each with its own replies.
RECURSIVE Replies(_)
Replies(shape) ==
    [i \in 1..Len(shape) |-> [is_root |-> FALSE, replies |-> Replies(shape[i])]]

\* A top-level comment as the API serves it; `author` is a name or "" for a
\* comment whose author is None.  num_reports and distinguished are None.
PrawComment(id, parent, author, body, shape) ==
    [fullname |-> id, subreddit_id |-> "t5_a", parent_id |-> parent,
     created_utc |-> 50, body |-> body, score |-> 1, ups |-> 1, downs |-> 0,
     gilded |-> 0, is_root |-> TRUE, permalink |-> id, replies |-> Replies(shape)]
    @@ (IF author = "" THEN <<>> ELSE [author |-> author])

\* A submission as the API serves it, with its expanded top-level comments.
PrawSubmission(id, is_self, author, comments) ==
    [fullname |-> id, subreddit_id |-> "t5_a", created_utc |-> 40, title |-> "q",
     selftext |-> "", score |-> 5, ups |-> 6, downs |-> 1, stickied |-> FALSE,
     gilded |-> 0, domain |-> "self.askscience", short_link |-> id,
     permalink |-> id, is_self |-> is_self, comments |-> comments]
    @@ (IF author = "" THEN <<>> ELSE [author |-> author])

\* scraper.py 104-105: the flairs load_subreddit searches for.
flairs ==
    <<"Physics", "Maths", "Astro", "Computing", "Geo", "Eng", "Chem", "Soc",
      "Bio", "Psych", "Med", "Neuro">>

\* r/askscience with three submissions.  t3_1 is a self-post by alice found
\* under two flairs, with the comments t1_1 (author, body and replies given)
\* and t1_2 (by bob, one reply); t3_2 is a link post by bob; t3_3 is a
\* self-post of a deleted account with the comment t1_3.
World(author, body, shape) ==
    LET s1 == PrawSubmission("t3_1", TRUE, "alice",
                  <<PrawComment("t1_1", "t3_1", author, body, shape),
                    PrawComment("t1_2", "t3_1", "bob", <<104, 105>>, <<<<>>>>)>>)
        s2 == PrawSubmission("t3_2", FALSE, "bob", <<>>)
        s3 == PrawSubmission("t3_3", TRUE, "",
                  <<PrawComment("t1_3", "t3_3", "", <<233>>, <<>>)>>)
    IN  [subreddit |-> [fullname |-> "t5_a", display_name |-> "askscience"],
         search |-> [f \in Range(flairs) |->
                        CASE f = "Physics" -> <<s1, s2>>
                          [] f = "Maths"   -> <<s1, s3>>
                          [] OTHER         -> <<>>],
         redditors |-> [n \in {"alice", "bob", "carol"} |-> Redditor(n)]]

Authors == {"", "alice", "carol"}

\* Every content of the first comment.
Worlds == {World(a, b, sh) : a \in Authors, b \in Bodies, sh \in Shapes2}

\* A few contents of the first comment, none of them deleted.
PlainWorlds ==
    {World(a, <<104, 105>>, sh) : a \in Authors, sh \in {<<>>, <<<<>>, <<<<>>>>>>}}

-----------------------------------------------------------------------------
(* scraper.py: the crawl.  One action per commit or remote call of the main *)
(* program; the store commits what it is given (fault "none").              *)

MaxAttempts == 5

SleepSeconds == 15

RECURSIVE max_tree_depth(_)

\* scraper.py 80-83 with min for max.
max_tree_depth_min(comment) ==
    IF Len(comment.replies) = 0 THEN 1
    ELSE 1 + Min({max_tree_depth(comment.replies[i]) : i \in 1..Len(comment.replies)})

\* scraper.py 80-83: _max_tree_depth(comment).
max_tree_depth(comment) ==
    IF Len(comment.replies) = 0 THEN 1
    ELSE 1 + Max({max_tree_depth(comment.replies[i]) : i \in 1..Len(comment.replies)})

\* scraper.py 139 with the bound off by one.
LastAttemptLate(attempt_count) == attempt_count = MaxAttempts + 1

\* scraper.py 139: attempt_count == 5.
LastAttempt(attempt_count) == attempt_count = MaxAttempts

\* scraper.py 132: a call of safe_praw_call starts.  calls counts the
\* invocations of f, errors those that raised an HTTPError, slept the time
\* spent in sleep.
StartCall(site) ==
    [site |-> site, status |-> "running", attempt_count |-> 1, calls |-> 0,
     errors |-> 0, slept |-> 0, obj |-> "None"]

\* The submissions the current search lists, and the current one.
Submissions == world.search[flairs[loc.flair]]

CurSubmission == Submissions[loc.si]

CurComment == CurSubmission.comments[loc.ci]

\* scraper.py 90 with the enumeration counting only the comments that are
\* not passed over.
rank_after_filter ==
    Cardinality({i \in 1..loc.ci :
        encode_ascii_ignore(CurSubmission.comments[i].body) # DeletedMarker})

\* scraper.py 90: enumerate(comments, start=1) numbers every comment of the
\* sequence, before the deleted ones are passed over.
rank == loc.ci

\* scraper.py 204-208: the GLOBAL subreddit row.
Start ==
    /\ pc = "start"
    /\ db' = add_model(SubredditKw("GLOBAL", "GLOBAL"), db, "none").db
    /\ pc' = "get_subreddit"
    /\ UNCHANGED <<call, pre, okKeys, world, loc, users, todo, praw, run, statVars>>

\* scraper.py 210-214: the subreddit is fetched and stored, load_subreddit starts.
GetSubreddit ==
    /\ pc = "get_subreddit"
    /\ db' = add_model(Subreddit(world.subreddit), db, "none").db
    /\ pc' = "search"
    /\ loc' = [loc EXCEPT !.flair = 1]
    /\ UNCHANGED <<call, pre, okKeys, world, users, todo, praw, run, statVars>>

\* scraper.py 210-211: the fetch raises an HTTPError; nothing catches it.
GetSubredditHTTPError ==
    /\ pc = "get_subreddit"
    /\ pc' = "terminated"
    /\ UNCHANGED <<storeVars, world, loc, users, todo, praw, run, statVars>>

\* scraper.py 106-108: the search for the next flair; load_subreddit returns
\* after the last one.
Search ==
    /\ pc = "search"
    /\ IF loc.flair > Len(flairs)
       THEN pc' = "loaded_subreddit" /\ loc' = loc
       ELSE pc' = "submission" /\ loc' = [loc EXCEPT !.si = 1]
    /\ UNCHANGED <<storeVars, world, users, todo, praw, run, statVars>>

\* scraper.py 107-108: listing the search results raises an HTTPError.
SearchHTTPError ==
    /\ pc = "search"
    /\ loc.flair <= Len(flairs)
    /\ pc' = "terminated"
    /\ UNCHANGED <<storeVars, world, loc, users, todo, praw, run, statVars>>

\* scraper.py 108-115: the next submission of the search; its author's stub.
NextSubmission ==
    /\ pc = "submission"
    /\ IF loc.si > Len(Submissions)
       THEN /\ pc' = "search"
            /\ loc' = [loc EXCEPT !.flair = @ + 1]
            /\ UNCHANGED <<db, users>>
       ELSE IF ~CurSubmission.is_self
       THEN /\ pc' = pc
            /\ loc' = [loc EXCEPT !.si = @ + 1]
            /\ UNCHANGED <<db, users>>
       ELSE IF Has(CurSubmission, "author") /\ CurSubmission.author \notin users
       THEN /\ users' = users \cup {CurSubmission.author}
            /\ db' = add_model(UserStub(CurSubmission.author), db, "none").db
            /\ pc' = "add_submission"
            /\ loc' = loc
       ELSE /\ pc' = "add_submission"
            /\ UNCHANGED <<db, users, loc>>
    /\ UNCHANGED <<call, pre, okKeys, world, todo, praw, run, statVars>>

\* scraper.py 117-122: the submission row; a submission already stored is
\* passed over, for a new one the comments are expanded.
AddSubmission ==
    /\ pc = "add_submission"
    /\ LET res == add_model(Submission(CurSubmission), db, "none")
       IN  /\ db' = res.db
           /\ IF ~res.ret
              THEN /\ pc' = "submission"
                   /\ loc' = [loc EXCEPT !.si = @ + 1]
                   /\ praw' = praw
              ELSE /\ pc' = "safe_praw_call"
                   /\ praw' = StartCall("replace_more_comments")
                   /\ loc' = loc
    /\ UNCHANGED <<call, pre, okKeys, world, users, todo, run, statVars>>

\* Where the caller of safe_praw_call goes on.
Continuation(site) ==
    IF site = "replace_more_comments" THEN "expanded" ELSE "got_redditor"

\* scraper.py 135-136: f() returns and safe_praw_call returns its value.
PrawReturns ==
    /\ pc = "safe_praw_call" /\ praw.status = "running"
    /\ praw' = [praw EXCEPT !.calls = @ + 1, !.status = "returned",
                            !.obj = IF praw.site = "get_redditor"
                                    THEN loc.username ELSE "None"]
    /\ pc' = Continuation(praw.site)
    /\ UNCHANGED <<storeVars, world, loc, users, todo, run, statVars>>

\* scraper.py 137-143: f() raises an HTTPError; False after the last attempt,
\* otherwise sleep(15) and one more attempt.
PrawHTTPError ==
    /\ pc = "safe_praw_call" /\ praw.status = "running"
    /\ IF LastAttempt(praw.attempt_count)
       THEN /\ praw' = [praw EXCEPT !.calls = @ + 1, !.errors = @ + 1,
                                    !.status = "returned", !.obj = "False"]
            /\ pc' = Continuation(praw.site)
       ELSE /\ praw' = [praw EXCEPT !.calls = @ + 1, !.errors = @ + 1,
                                    !.slept = @ + SleepSeconds,
                                    !.attempt_count = @ + 1]
            /\ pc' = pc
    /\ UNCHANGED <<storeVars, world, loc, users, todo, run, statVars>>

\* scraper.py 123-126: without the expanded comments the submission is left.
AfterExpand ==
    /\ pc = "expanded"
    /\ IF praw.obj = "False"
       THEN pc' = "submission" /\ loc' = [loc EXCEPT !.si = @ + 1]
       ELSE pc' = "comment" /\ loc' = [loc EXCEPT !.ci = 1]
    /\ UNCHANGED <<storeVars, world, users, todo, praw, run, statVars>>

\* scraper.py 90-97: the next top-level comment; a deleted one is passed
\* over, the author of another gets a stub.
NextComment ==
    /\ pc = "comment"
    /\ IF loc.ci > Len(CurSubmission.comments)
       THEN /\ pc' = "submission"
            /\ loc' = [loc EXCEPT !.si = @ + 1]
            /\ UNCHANGED <<db, users>>
       ELSE IF encode_ascii_ignore(CurComment.body) = DeletedMarker
       THEN /\ pc' = pc
            /\ loc' = [loc EXCEPT !.ci = @ + 1]
            /\ UNCHANGED <<db, users>>
       ELSE IF Has(CurComment, "author") /\ CurComment.author \notin users
       THEN /\ users' = users \cup {CurComment.author}
            /\ db' = add_model(UserStub(CurComment.author), db, "none").db
            /\ pc' = "add_comment"
            /\ loc' = loc
       ELSE /\ pc' = "add_comment"
            /\ UNCHANGED <<db, users, loc>>
    /\ UNCHANGED <<call, pre, okKeys, world, todo, praw, run, statVars>>

\* scraper.py 99-100: the comment row, with its rank, the number of its
\* replies and the depth of its reply tree.
AddComment ==
    /\ pc = "add_comment"
    /\ db' = add_model(Comment(CurComment, rank, Len(CurComment.replies),
                               max_tree_depth(CurComment)), db, "none").db
    /\ loc' = [loc EXCEPT !.ci = @ + 1]
    /\ pc' = "comment"
    /\ UNCHANGED <<call, pre, okKeys, world, users, todo, praw, run, statVars>>

\* scraper.py 215: load_users is called with the names seen in this run.
LoadUsersStart ==
    /\ pc = "loaded_subreddit"
    /\ pc' = "load_users"
    /\ todo' = users
    /\ UNCHANGED <<storeVars, world, loc, users, praw, run, statVars>>

\* scraper.py 57-58: the next name of the set, in whatever order the set
\* yields them; the run ends after the last.
LoadUsers ==
    /\ pc = "load_users"
    /\ IF todo = {}
       THEN pc' = "done" /\ UNCHANGED <<todo, loc, praw>>
       ELSE \E username \in todo :
               /\ todo' = todo \ {username}
               /\ loc' = [loc EXCEPT !.username = username]
               /\ praw' = StartCall("get_redditor")
               /\ pc' = "safe_praw_call"
    /\ UNCHANGED <<storeVars, world, users, run, statVars>>

\* scraper.py 59-61: a user that could not be fetched is left.
AfterGetRedditor ==
    /\ pc = "got_redditor"
    /\ pc' = IF praw.obj = "False" THEN "load_users" ELSE "history"
    /\ UNCHANGED <<storeVars, world, loc, users, todo, praw, run, statVars>>

\* The user safe_praw_call returned.
CurUser == world.redditors[praw.obj]

\* scraper.py 62-68: both histories are read and the full User is merged.
History ==
    /\ pc = "history"
    /\ db' = merge_model(User(CurUser), db, "none").db
    /\ pc' = "activity"
    /\ loc' = [loc EXCEPT !.ai = 1]
    /\ UNCHANGED <<call, pre, okKeys, world, users, todo, praw, run, statVars>>

\* scraper.py 62-65: reading a history raises an HTTPError; nothing catches it.
HistoryHTTPError ==
    /\ pc = "history"
    /\ pc' = "terminated"
    /\ UNCHANGED <<storeVars, world, loc, users, todo, praw, run, statVars>>

\* scraper.py 204-212: subreddit_models[name].
SubredditModel(name) ==
    IF name = "GLOBAL" THEN SubredditKw("GLOBAL", "GLOBAL") ELSE Subreddit(world.subreddit)

\* scraper.py 71-76: the activity of a user in one tracked subreddit.
ActivityModel(user, subreddit) ==
    UserActivity(user.name, SubredditModel(subreddit).subreddit_id,
                 SubredditModel(subreddit).name,
                 user_stats(user.comments, Range(SubredditOrder))[subreddit],
                 user_stats(user.submitted, Range(SubredditOrder))[subreddit])

\* scraper.py 70-77: one activity row per tracked subreddit.
AddActivity ==
    /\ pc = "activity"
    /\ IF loc.ai > Len(SubredditOrder)
       THEN pc' = "load_users" /\ UNCHANGED <<db, loc>>
       ELSE /\ db' = add_model(ActivityModel(CurUser, SubredditOrder[loc.ai]), db, "none").db
            /\ loc' = [loc EXCEPT !.ai = @ + 1]
            /\ pc' = pc
    /\ UNCHANGED <<call, pre, okKeys, world, users, todo, praw, run, statVars>>

MaxRuns == 2

\* The process is killed from outside.
Kill ==
    /\ pc \notin {"done", "terminated", "killed", "api", "user_stats", "returned"}
    /\ pc' = "killed"
    /\ UNCHANGED <<storeVars, world, loc, users, todo, praw, run, statVars>>

\* The program is started again on the same database file.
Restart ==
    /\ pc = "killed"
    /\ run < MaxRuns
    /\ run' = run + 1
    /\ pc' = "start"
    /\ loc' = NoLoc /\ users' = {} /\ todo' = {} /\ praw' = IdlePraw
    /\ UNCHANGED <<storeVars, world, statVars>>

InitCrawl(ws) ==
    /\ db = EmptyDb /\ call = NoCall /\ pre = EmptyDb /\ okKeys = {}
    /\ world \in ws /\ pc = "start" /\ loc = NoLoc /\ users = {} /\ todo = {}
    /\ praw = IdlePraw /\ run = 1
    /\ gen = <<>> /\ stats = <<>>

NextIngest ==
    \/ Start \/ GetSubreddit \/ Search \/ NextSubmission \/ AddSubmission
    \/ PrawReturns \/ AfterExpand \/ NextComment \/ AddComment
    \/ LoadUsersStart \/ LoadUsers \/ AfterGetRedditor \/ History \/ AddActivity

\* One run against an empty store, the API answering every request.
SpecIngest == InitCrawl(Worlds) /\ [][NextIngest]_vars

\* One run against an empty store, any API request may raise an HTTPError.
SpecCrawl ==
    InitCrawl(PlainWorlds)
    /\ [][NextIngest \/ GetSubredditHTTPError \/ SearchHTTPError \/ PrawHTTPError
          \/ HistoryHTTPError]_vars

\* Runs that may be killed and started again, the API answering every request.
SpecResume == InitCrawl(PlainWorlds) /\ [][NextIngest \/ Kill \/ Restart]_vars

-----------------------------------------------------------------------------
(* Claims about the crawl                                                   *)

\* C4: safe_praw_call invokes the operation at most 5 times; it returns the
\* value of the first call that does not raise; it returns False exactly
\* after 5 calls that all raised an HTTPError, without a 6th call; it sleeps
\* 15 between two consecutive attempts and not after the last one.
C4_AtMostFiveAttempts ==
    /\ praw.calls <= 5
    /\ praw.status = "running" =>
          (praw.calls < 5 /\ praw.errors = praw.calls /\ praw.slept = 15 * praw.calls)
    /\ praw.status = "returned" =>
          /\ praw.slept = 15 * (praw.calls - 1)
          /\ praw.obj = "False" <=> (praw.calls = 5 /\ praw.errors = 5)
          /\ praw.obj # "False" => praw.errors = praw.calls - 1
          /\ (praw.site = "get_redditor" /\ praw.obj # "False")
                => praw.obj = loc.username

\* C4 witness: the wrapper returned False after a fifth failed call and four
\* pauses.
C4_Witness ==
    /\ praw.status = "returned" /\ praw.obj = "False"
    /\ praw.calls = 5 /\ praw.errors = 5 /\ praw.slept = 60

\* Supporting check (its negation is reached): the wrapper returned the value
\* of a fifth call after four calls that raised.
FifthCallSucceeds ==
    /\ praw.status = "returned" /\ praw.obj # "False"
    /\ praw.calls = 5 /\ praw.errors = 4 /\ praw.slept = 60

\* C5: an HTTP error of any request of the crawl (fetch subreddit, search,
\* expand comments, fetch user, read a user's histories) is retried and, at
\* worst, makes the crawl skip that submission's comments or that user: it
\* never ends the run.
C5_HttpErrorNeverEndsRun == pc # "terminated"

AllSubmissions(w) == UNION {Range(w.search[f]) : f \in Range(flairs)}

SelfPosts(w) == {s \in AllSubmissions(w) : s.is_self}

TopLevel(w) == UNION {Range(s.comments) : s \in SelfPosts(w)}

\* C8 as claimed: after load_subreddit on an empty store there is exactly one
\* Submission row per distinct self-post of the searches, exactly one Comment
\* row per top-level comment of these whose body is not the deleted marker
\* (none for a deleted comment, none for a reply), and exactly one User stub
\* per distinct author of these submissions and comments.
C8_IngestRows ==
    pc = "loaded_subreddit" =>
        LET kept  == {c \in TopLevel(world) : c.body # DeletedMarker}
            names == {s.author : s \in {x \in SelfPosts(world) : Has(x, "author")}}
                     \cup {c.author : c \in {x \in kept : Has(x, "author")}}
        IN  /\ {r.sub_id : r \in db.submissions} = {s.fullname : s \in SelfPosts(world)}
            /\ Cardinality(db.submissions) = Cardinality({s.fullname : s \in SelfPosts(world)})
            /\ {r.com_id : r \in db.comments} = {c.fullname : c \in kept}
            /\ Cardinality(db.comments) = Cardinality({c.fullname : c \in kept})
            /\ db.users = {UserStub(n) : n \in names}

\* Supporting check: the statement of C8 with the comparison the code makes,
\* the body without its non-ASCII characters against the marker.
IngestRowsDecoded ==
    pc = "loaded_subreddit" =>
        LET kept  == {c \in TopLevel(world) : encode_ascii_ignore(c.body) # DeletedMarker}
            names == {s.author : s \in {x \in SelfPosts(world) : Has(x, "author")}}
                     \cup {c.author : c \in {x \in kept : Has(x, "author")}}
        IN  /\ {r.sub_id : r \in db.submissions} = {s.fullname : s \in SelfPosts(world)}
            /\ Cardinality(db.submissions) = Cardinality({s.fullname : s \in SelfPosts(world)})
            /\ {r.com_id : r \in db.comments} = {c.fullname : c \in kept}
            /\ Cardinality(db.comments) = Cardinality({c.fullname : c \in kept})
            /\ db.users = {UserStub(n) : n \in names}

\* The number of levels of the forest below the comments in S, counted
\* level by level.
RECURSIVE Levels(_)
Levels(S) ==
    IF S = {} THEN 0 ELSE 1 + Levels(UNION {Range(c.replies) : c \in S})

\* C9: for every stored top-level comment, convo_depth is 1 without replies
\* and otherwise 1 + the greatest depth of an immediate reply (2 when the
\* only reply has no replies), and num_replies is the number of immediate
\* replies.
C9_DepthAndReplyCount ==
    \A r \in db.comments : \A c \in TopLevel(world) :
        c.fullname = r.com_id =>
            /\ r.num_replies = Len(c.replies)
            /\ r.convo_depth = Levels({c})
            /\ Len(c.replies) = 0 => r.convo_depth = 1
            /\ Len(c.replies) > 0 =>
                  r.convo_depth = 1 + Max({Levels({x}) : x \in Range(c.replies)})
            /\ (Len(c.replies) = 1 /\ Len(c.replies[1].replies) = 0) => r.convo_depth = 2

\* C9 witness: a stored comment with two replies of different depths.
C9_Witness ==
    \E r \in db.comments : \E c \in TopLevel(world) :
        /\ c.fullname = r.com_id /\ r.num_replies = 2 /\ r.convo_depth = 3
        /\ \E x \in Range(c.replies) : Len(x.replies) = 0

\* The rows one uninterrupted run stores for the remote content w.
KeptComments(w) ==
    {<<s, i>> \in SelfPosts(w) \X (1..Cardinality(TopLevel(w))) :
        i <= Len(s.comments) /\ encode_ascii_ignore(s.comments[i].body) # DeletedMarker}

SeenNames(w) ==
    {s.author : s \in {x \in SelfPosts(w) : Has(x, "author")}}
    \cup {p[1].comments[p[2]].author :
            p \in {q \in KeptComments(w) : Has(q[1].comments[q[2]], "author")}}

WithoutId(r) == Restrict(r, DOMAIN r \ {"id"})

AsFullRun(d, w) ==
    /\ d.subreddits = {SubredditKw("GLOBAL", "GLOBAL"), Subreddit(w.subreddit)}
    /\ d.submissions = {Submission(s) : s \in SelfPosts(w)}
    /\ d.comments =
          {Comment(p[1].comments[p[2]], p[2], Len(p[1].comments[p[2]].replies),
                   max_tree_depth(p[1].comments[p[2]])) : p \in KeptComments(w)}
    /\ d.users = {User(w.redditors[n]) : n \in SeenNames(w)}
    /\ {WithoutId(r) : r \in d.user_activities} =
          {ActivityModel(w.redditors[n], sr) : n \in SeenNames(w), sr \in Range(SubredditOrder)}
    /\ Cardinality(d.user_activities) = Cardinality(SeenNames(w)) * Len(SubredditOrder)

\* Supporting check: what a run that is not interrupted has stored at its end.
FullRunStores == (pc = "done" /\ run = 1) => AsFullRun(db, world)

\* C6: a run started afresh after an earlier run was killed ends with every
\* Submission, Comment, User and UserActivity row an uninterrupted run would
\* have stored, and with no second row for anything stored already.
C6_ResumedRunCompletes == (pc = "done" /\ run > 1) => AsFullRun(db, world)

\* The positions of the stored comment row r in the top-level sequences of
\* the self-posts of w.
Positions(r, w) ==
    {<<s, i>> \in SelfPosts(w) \X (1..Cardinality(TopLevel(w))) :
        i <= Len(s.comments) /\ s.comments[i].fullname = r.com_id}

\* C11: the rank stored on a Comment row is the 1-based position of the
\* comment in the top-level sequence of its submission, the comments passed
\* over as deleted counted too; so of two stored comments of one submission
\* the earlier one has the smaller rank, and a stored comment that follows a
\* deleted one keeps its position as rank (no renumbering).
C11_RankIsInputPosition ==
    /\ \A r \in db.comments :
          /\ Positions(r, world) # {}
          /\ \A p \in Positions(r, world) : r.best_rank = p[2]
    /\ \A r1, r2 \in db.comments :
          \A p1 \in Positions(r1, world), p2 \in Positions(r2, world) :
              (p1[1] = p2[1] /\ p1[2] < p2[2]) => r1.best_rank < r2.best_rank

\* C11 witness: the first comment of a submission was passed over as deleted
\* and the second is stored with rank 2, no row of that submission has rank 1.
C11_Witness ==
    /\ pc = "loaded_subreddit"
    /\ \E s \in SelfPosts(world) :
          /\ Len(s.comments) >= 2
          /\ s.comments[1].body = DeletedMarker
          /\ \E r \in db.comments :
                r.com_id = s.comments[2].fullname /\ r.best_rank = 2
          /\ \A r \in db.comments : r.parent_id = s.fullname => r.best_rank # 1

\* Supporting witness: both comments of a submission are stored, with the
\* ranks 1 and 2.
BothRanked ==
    \E s \in SelfPosts(world) : \E r1, r2 \in db.comments :
        /\ Len(s.comments) >= 2
        /\ r1.com_id = s.comments[1].fullname /\ r1.best_rank = 1
        /\ r2.com_id = s.comments[2].fullname /\ r2.best_rank = 2

====
